---- MODULE Spec2Model ----
(***************************************************************************)
(* Model of redditsenty (src/api.py): the posts table with its FTS5 index  *)
(* and triggers, the ingestion run fetch_and_analyze_subreddit as driven   *)
(* by background_fetcher and by trigger_analysis on one asyncio event      *)
(* loop, retention cleanup, and the read handlers.                         *)
(*                                                                         *)
(* Time is counted in half days ("ticks"): DATE(t) is the calendar day of  *)
(* tick t and Days(n) is timedelta(days=n).  Optional values are modelled  *)
(* as "None" for strings and as <<>> / <<v>> for numbers.  Sentiment       *)
(* scores are in tenths (7 is 0.7).                                        *)
(***************************************************************************)
EXTENDS Integers, Sequences, FiniteSets, TLC

(***************************************************************************)
(* Bounds of the model.                                                    *)
(***************************************************************************)
\* per-fetch limit of the modelled source (MAX_POSTS_PER_FETCH is 25)
MaxFetch == 2
\* number of sweeps background_fetcher may start
MaxSweeps == 1
\* number of manual POST /api/analyze requests
MaxTriggers == 1
\* number of half days the clock may advance
MaxTicks == 1
\* number of content chunks read from the summarizer's streamed response
MaxChunks == 2
\* largest window asked of the timeline
MaxDays == 3
\* tokens of a completion the classifier's server returns
MaxTokens == 2

(***************************************************************************)
(* Program constants.                                                      *)
(***************************************************************************)
KEEP_MONTHS == 6

\* the first two of the fifteen configured subreddits
AI_SUBREDDITS == <<"LocalLLaMA", "OpenAI">>

None == "None"

\* timedelta(days=n) in ticks
Days(n) == n * 2

\* SQLite DATE(created_utc) / strftime("%Y-%m-%d"): the calendar day of a tick
DATE(t) == t \div 2

(***************************************************************************)
(* The external post source: what r/<subreddit>.json can hold.  p1 is      *)
(* older than the retention horizon, p2 is of yesterday, p3 of today.      *)
(***************************************************************************)
Ids == {"p1", "p2", "p3"}

SourcePost(id) ==
    CASE id = "p1" -> [id |-> "p1", title |-> "llama", subreddit |-> "LocalLLaMA",
                       created_utc |-> Days(20) - 1, score |-> 5, num_comments |-> 1]
      [] id = "p2" -> [id |-> "p2", title |-> "llama", subreddit |-> "LocalLLaMA",
                       created_utc |-> Days(199) + 1, score |-> 6, num_comments |-> 0]
      [] id = "p3" -> [id |-> "p3", title |-> "gpt", subreddit |-> "OpenAI",
                       created_utc |-> Days(200), score |-> 1, num_comments |-> 9]

Tokens == {"llama", "gpt"}

\* the sequences without repetition, of length at most n, over the set S
SeqsUpTo(S, n) ==
    UNION {{s \in [1..k -> S] : \A a, b \in 1..k : a # b => s[a] # s[b]} : k \in 0..n}

\* fetch_reddit_posts: the lists a fetch of `subreddit` with `limit` can return
\* ([] also stands for the caught urlopen failure), or "raise" for an error
\* outside the try block (a payload without data/children)
fetch_reddit_posts(subreddit, limit) ==
    {[raised |-> FALSE, posts |-> l] :
        l \in {[k \in DOMAIN s |-> SourcePost(s[k])] :
                 s \in SeqsUpTo({id \in Ids : SourcePost(id).subreddit = subreddit}, limit)}}
    \cup {[raised |-> TRUE, posts |-> <<>>]}

\* analyze_sentiment: the (sentiment, score) pairs it can return for a text:
\* what the completion of the service parses to, or (None, None) on a
\* non-200 status or an exception.  In the model the service finds posts
\* about llama positive and posts about gpt negative or neutral.
analyze_sentiment(text) ==
    (IF text = "llama" THEN { <<"positive", <<7>> >> }
     ELSE { <<"negative", <<-7>> >>, <<"neutral", <<0>> >> })
    \cup { <<None, <<>> >> }

\* coroutine 0 is background_fetcher, 1..MaxTriggers are trigger_analysis requests
Procs == 0..MaxTriggers
IsBg(p) == p = 0

VARIABLES
    posts,       \* the posts table: a set of rows, each with its rowid
    posts_fts,   \* the FTS5 index: pairs <<rowid, token>>
    now,         \* the wall clock, in ticks
    run,         \* per coroutine: position and locals of fetch_and_analyze_subreddit
    bgSub,       \* background_fetcher: index of the subreddit of the for loop
    active,      \* the coroutine running between two awaits, or -1
    sweeps,      \* sweeps started so far
    attempts,    \* the sources the current sweep has called fetch_and_analyze_subreddit
                 \* for, in order, each with whether the call raised
    calls,       \* per post id: analyze_sentiment calls issued so far
    obs,         \* per coroutine: what the current run has observed and done
    journal,     \* the latest write: the id store_post stored, if the latest write is a
                 \* store; and the ids the latest cleanup deleted and nothing stored since
    stream,      \* search_analysis_stream.event_generator: position and locals, and
                 \* how the summarizer call went
    events,      \* the server-sent events the generator has yielded, in order
    tone,        \* the overall-tone computation: its inputs and both endpoints' labels
    reply        \* one analyze_sentiment call: the server's answer and what is returned

vars == <<posts, posts_fts, now, run, bgSub, active, sweeps, attempts, calls, obs, journal,
          stream, events, tone, reply>>

\* what ingestion leaves alone
readerVars == <<stream, events, tone, reply>>

(***************************************************************************)
(* The store: table posts, index posts_fts, triggers posts_ai / posts_ad.  *)
(***************************************************************************)
\* the rowid SQLite gives a new row of a rowid table without AUTOINCREMENT
NextRowid ==
    IF posts = {} THEN 1
    ELSE (CHOOSE m \in {r.rowid : r \in posts} : \A r \in posts : r.rowid <= m) + 1

\* variant: no insert trigger, the new row is not indexed
posts_ai_Unindexed(fts, new) == fts

\* trigger posts_ai: AFTER INSERT, index the new row under its rowid
posts_ai(fts, new) == fts \cup {<<new.rowid, new.title>>}

\* trigger posts_ad: AFTER DELETE, the FTS5 'delete' command for the old row
posts_ad(fts, old) == fts \ {<<old.rowid, old.title>>}

\* variant: the existence check never finds the post
Exists_Never(id) == FALSE

\* SELECT id FROM posts WHERE id = ? ... if cursor.fetchone()
Exists(id) == \E r \in posts : r.id = id

\* INSERT OR REPLACE INTO posts: a row with the same id is removed by the
\* REPLACE conflict resolution, which fires no delete trigger (recursive
\* triggers are off by default), and the new row gets a fresh rowid, for which
\* posts_ai fires.  analyzed_at is datetime.now() whatever the sentiment is.
store_post(post, sentiment, score) ==
    LET new == [rowid |-> NextRowid, id |-> post.id, title |-> post.title,
                subreddit |-> post.subreddit, created_utc |-> post.created_utc,
                score |-> post.score, num_comments |-> post.num_comments,
                sentiment |-> sentiment, sentiment_score |-> score,
                analyzed_at |-> <<now>>]
    IN  /\ posts' = {r \in posts : r.id # post.id} \cup {new}
        /\ posts_fts' = posts_ai(posts_fts, new)
        /\ journal' = [stored |-> post.id, removed |-> journal.removed \ {post.id},
                       cleanups |-> journal.cleanups]

\* DELETE FROM posts WHERE created_utc < cutoff, posts_ad firing per deleted row
\* variant: DELETE FROM posts WHERE created_utc <= ?
cleanup_old_posts_Inclusive ==
    LET cutoff == now - Days(KEEP_MONTHS * 30)
        deleted == {r \in posts : r.created_utc <= cutoff}
    IN  /\ posts' = posts \ deleted
        /\ posts_fts' = {e \in posts_fts :
                           \A r \in deleted : posts_ad({e}, r) = {e}}
        /\ journal' = [stored |-> "", removed |-> {r.id : r \in deleted},
                       cleanups |-> journal.cleanups + 1]

\* DELETE FROM posts WHERE created_utc < cutoff, posts_ad firing for each row
cleanup_old_posts ==
    LET cutoff == now - Days(KEEP_MONTHS * 30)
        deleted == {r \in posts : r.created_utc < cutoff}
    IN  /\ posts' = posts \ deleted
        /\ posts_fts' = {e \in posts_fts :
                           \A r \in deleted : posts_ad({e}, r) = {e}}
        /\ journal' = [stored |-> "", removed |-> {r.id : r \in deleted},
                       cleanups |-> journal.cleanups + 1]

(***************************************************************************)
(* fetch_and_analyze_subreddit, one coroutine per caller.  The code        *)
(* between two awaits runs without interleaving: `active` names the        *)
(* coroutine that is inside such a stretch.                                *)
(***************************************************************************)
IdleRun == [pc |-> "idle", subreddit |-> "", posts |-> <<>>, i |-> 0, analyzed |-> 0]

NoObs == [before |-> [posts |-> {}, posts_fts |-> {}], allExisted |-> FALSE,
          someExisted |-> FALSE, calls |-> 0, writes |-> 0, ended |-> FALSE,
          classified |-> {}, unsetIds |-> {}, afterUnset |-> 0, missed |-> {}]

\* a run that starts or goes on ends the "has just returned" mark of the others
SetObs(p, o) ==
    obs' = [q \in Procs |-> IF q = p THEN o ELSE IF obs[q].ended THEN NoObs ELSE obs[q]]

\* what is recorded of a run when it starts: the store as it is, whether
\* every / some returned post is already stored; then its analyze_sentiment
\* and store_post calls, the ids it called analyze_sentiment for, those for
\* which the answer was the unset pair, the stores made after such an answer,
\* and at its return the returned posts that are not stored
StartObs(list) ==
    [before |-> [posts |-> posts, posts_fts |-> posts_fts],
     allExisted |-> \A k \in DOMAIN list : Exists(list[k].id),
     someExisted |-> \E k \in DOMAIN list : Exists(list[k].id),
     calls |-> 0, writes |-> 0, ended |-> FALSE,
     classified |-> {}, unsetIds |-> {}, afterUnset |-> 0, missed |-> {}]

\* variant: no `continue`, every returned post is classified and stored
NextAbsent_NoSkip(list, j) == IF j <= Len(list) THEN j ELSE Len(list) + 1

\* for post in posts: ... if cursor.fetchone(): continue -- the index of the
\* first post from position j on that is not stored, Len + 1 when there is none
NextAbsent(list, j) ==
    IF \E k \in j..Len(list) : ~Exists(list[k].id)
    THEN CHOOSE k \in j..Len(list) :
            /\ ~Exists(list[k].id)
            /\ \A m \in j..(k - 1) : Exists(list[m].id)
    ELSE Len(list) + 1

\* background_fetcher after a run has returned or raised: the next subreddit
\* of the for loop, or cleanup after the last one, in the same stretch
BgNext(r, o) ==
    /\ run' = [run EXCEPT ![0] = [r EXCEPT !.pc =
                 IF bgSub < Len(AI_SUBREDDITS) THEN "fetch" ELSE "cleanup"]]
    /\ bgSub' = IF bgSub < Len(AI_SUBREDDITS) THEN bgSub + 1 ELSE bgSub
    /\ SetObs(0, o)
    /\ active' = 0
    /\ UNCHANGED calls

\* return analyzed
Return(p, r, o) ==
    LET end == [o EXCEPT !.ended = TRUE,
                         !.missed = {r.posts[k].id : k \in DOMAIN r.posts}
                                        \ {row.id : row \in posts}]
    IN
    IF IsBg(p)
    THEN BgNext([IdleRun EXCEPT !.analyzed = r.analyzed], end)
    ELSE /\ run' = [run EXCEPT ![p] = [IdleRun EXCEPT !.pc = "returned",
                                                  !.analyzed = r.analyzed]]
         /\ SetObs(p, end)
         /\ active' = -1
         /\ UNCHANGED <<bgSub, calls>>

\* the for loop from position j: skip the stored posts, then either await
\* analyze_sentiment for the first post that is not stored, or return
LoopFrom(p, r, o, j) ==
    LET k == NextAbsent(r.posts, j)
    IN  IF k <= Len(r.posts)
        THEN /\ run' = [run EXCEPT ![p] = [r EXCEPT !.pc = "analyzing", !.i = k]]
             /\ calls' = [calls EXCEPT ![r.posts[k].id] = @ + 1]
             /\ SetObs(p, [o EXCEPT !.calls = @ + 1,
                                    !.classified = @ \cup {r.posts[k].id}])
             /\ active' = -1
             /\ UNCHANGED bgSub
        ELSE Return(p, [r EXCEPT !.i = k], o)

\* variant: no try / except around the call, a raising source ends the for loop
BgFetch_Abort ==
    /\ run[0].pc = "fetch"
    /\ active = 0
    /\ \E res \in fetch_reddit_posts(AI_SUBREDDITS[bgSub], MaxFetch) :
         /\ attempts' = Append(attempts, [subreddit |-> AI_SUBREDDITS[bgSub],
                                          raised |-> res.raised])
         /\ IF res.raised
            THEN /\ run' = [run EXCEPT ![0] = [IdleRun EXCEPT !.pc = "cleanup"]]
                 /\ SetObs(0, NoObs)
                 /\ UNCHANGED <<bgSub, active, calls>>
            ELSE LoopFrom(0, [pc |-> "fetch", subreddit |-> AI_SUBREDDITS[bgSub],
                              posts |-> res.posts, i |-> 1, analyzed |-> 0],
                          StartObs(res.posts), 1)
    /\ UNCHANGED <<posts, posts_fts, now, sweeps, journal, readerVars>>

\* background_fetcher: analyzed = await fetch_and_analyze_subreddit(subreddit),
\* up to the first await; an exception is caught and the loop goes on
BgFetch ==
    /\ run[0].pc = "fetch"
    /\ active = 0
    /\ \E res \in fetch_reddit_posts(AI_SUBREDDITS[bgSub], MaxFetch) :
         /\ attempts' = Append(attempts, [subreddit |-> AI_SUBREDDITS[bgSub],
                                          raised |-> res.raised])
         /\ IF res.raised
            THEN BgNext(IdleRun, NoObs)
            ELSE LoopFrom(0, [pc |-> "fetch", subreddit |-> AI_SUBREDDITS[bgSub],
                              posts |-> res.posts, i |-> 1, analyzed |-> 0],
                          StartObs(res.posts), 1)
    /\ UNCHANGED <<posts, posts_fts, now, sweeps, journal, readerVars>>

\* trigger_analysis: a request starts its run
TriggerStart(t) ==
    /\ ~IsBg(t)
    /\ run[t].pc = "idle"
    /\ active = -1
    /\ \E k \in DOMAIN AI_SUBREDDITS :
         \E res \in fetch_reddit_posts(AI_SUBREDDITS[k], MaxFetch) :
            IF res.raised
            THEN /\ run' = [run EXCEPT ![t] = [IdleRun EXCEPT !.pc = "failed"]]
                 /\ SetObs(t, NoObs)
                 /\ UNCHANGED <<active, bgSub, calls>>
            ELSE LoopFrom(t, [pc |-> "fetch", subreddit |-> AI_SUBREDDITS[k],
                              posts |-> res.posts, i |-> 1, analyzed |-> 0],
                          StartObs(res.posts), 1)
    /\ UNCHANGED <<posts, posts_fts, now, sweeps, attempts, journal, readerVars>>

\* variant: a post whose classification failed is not stored
AnalyzeDone_SkipUnset(p) ==
    /\ run[p].pc = "analyzing"
    /\ active = -1
    /\ \E res \in analyze_sentiment(run[p].posts[run[p].i].title) :
         /\ IF res[1] = None
            THEN UNCHANGED <<posts, posts_fts, journal>>
            ELSE store_post(run[p].posts[run[p].i], res[1], res[2])
         /\ obs' = [obs EXCEPT
                      ![p].writes = @ + 1,
                      ![p].afterUnset = IF obs[p].unsetIds # {} THEN @ + 1 ELSE @,
                      ![p].unsetIds = IF res[1] = None
                                      THEN @ \cup {run[p].posts[run[p].i].id} ELSE @]
    /\ run' = [run EXCEPT ![p].pc = "sleeping", ![p].analyzed = @ + 1]
    /\ UNCHANGED <<now, bgSub, active, sweeps, attempts, calls, readerVars>>

\* analyze_sentiment answers: store_post, analyzed += 1, await asyncio.sleep(0.5)
AnalyzeDone(p) ==
    /\ run[p].pc = "analyzing"
    /\ active = -1
    /\ \E res \in analyze_sentiment(run[p].posts[run[p].i].title) :
         /\ store_post(run[p].posts[run[p].i], res[1], res[2])
         /\ obs' = [obs EXCEPT
                      ![p].writes = @ + 1,
                      ![p].afterUnset = IF obs[p].unsetIds # {} THEN @ + 1 ELSE @,
                      ![p].unsetIds = IF res[1] = None
                                      THEN @ \cup {run[p].posts[run[p].i].id} ELSE @]
    /\ run' = [run EXCEPT ![p].pc = "sleeping", ![p].analyzed = @ + 1]
    /\ UNCHANGED <<now, bgSub, active, sweeps, attempts, calls, readerVars>>

\* analyze_sentiment answers and store_post raises (sqlite3.Error) in a run of
\* background_fetcher: nothing is stored, the exception leaves
\* fetch_and_analyze_subreddit and is caught by the try around the call
BgStoreRaises ==
    /\ run[0].pc = "analyzing"
    /\ active = -1
    /\ BgNext(IdleRun, NoObs)
    /\ attempts' = [attempts EXCEPT ![Len(attempts)].raised = TRUE]
    /\ UNCHANGED <<posts, posts_fts, now, sweeps, journal, readerVars>>

\* the rate-limit sleep is over: the for loop goes on with the next post
Wake(p) ==
    /\ run[p].pc = "sleeping"
    /\ active = -1
    /\ LoopFrom(p, run[p], obs[p], run[p].i + 1)
    /\ UNCHANGED <<posts, posts_fts, now, sweeps, attempts, journal, readerVars>>

\* variant: the sweep goes to its interval sleep without the cleanup
BgCleanup_Skipped ==
    /\ run[0].pc = "cleanup"
    /\ active = 0
    /\ run' = [run EXCEPT ![0] = [IdleRun EXCEPT !.pc = "interval"]]
    /\ obs' = [obs EXCEPT ![0] = NoObs]
    /\ active' = -1
    /\ UNCHANGED <<posts, posts_fts, journal, now, bgSub, sweeps, attempts, calls,
                   readerVars>>

\* background_fetcher: cleanup_old_posts(), then await asyncio.sleep(15 min)
BgCleanup ==
    /\ run[0].pc = "cleanup"
    /\ active = 0
    /\ cleanup_old_posts
    /\ run' = [run EXCEPT ![0] = [IdleRun EXCEPT !.pc = "interval"]]
    /\ obs' = [obs EXCEPT ![0] = NoObs]
    /\ active' = -1
    /\ UNCHANGED <<now, bgSub, sweeps, attempts, calls, readerVars>>

\* cleanup_old_posts raises (sqlite3.Error on connect, DELETE or commit): the
\* call is outside every try, the exception ends background_fetcher
BgCleanupRaises ==
    /\ run[0].pc = "cleanup"
    /\ active = 0
    /\ run' = [run EXCEPT ![0] = [IdleRun EXCEPT !.pc = "dead"]]
    /\ obs' = [obs EXCEPT ![0] = NoObs]
    /\ active' = -1
    /\ journal' = [journal EXCEPT !.cleanups = @ + 1]
    /\ UNCHANGED <<posts, posts_fts, now, bgSub, sweeps, attempts, calls, readerVars>>

\* background_fetcher: while True starts a sweep, when the task first runs
\* and each time the interval sleep is over
BgSweep ==
    /\ run[0].pc \in {"start", "interval"}
    /\ active = -1
    /\ sweeps < MaxSweeps
    /\ run' = [run EXCEPT ![0] = [IdleRun EXCEPT !.pc = "fetch"]]
    /\ bgSub' = 1
    /\ sweeps' = sweeps + 1
    /\ attempts' = <<>>
    /\ active' = 0
    /\ SetObs(0, NoObs)
    /\ UNCHANGED <<posts, posts_fts, now, calls, journal, readerVars>>

\* background_fetcher: the interval sleep is over once more after the sweeps
\* that MaxSweeps counts, and while True starts one further sweep
BgSweepAgain ==
    /\ run[0].pc = "interval"
    /\ active = -1
    /\ sweeps = MaxSweeps
    /\ run' = [run EXCEPT ![0] = [IdleRun EXCEPT !.pc = "fetch"]]
    /\ bgSub' = 1
    /\ sweeps' = sweeps + 1
    /\ attempts' = <<>>
    /\ active' = 0
    /\ SetObs(0, NoObs)
    /\ UNCHANGED <<posts, posts_fts, now, calls, journal, readerVars>>

\* lifespan at shutdown: fetcher_task.cancel() throws asyncio.CancelledError
\* into the task at the await it is suspended in (the classifier's request,
\* the rate-limit sleep or the sleep between sweeps).  CancelledError is a
\* BaseException: neither `except Exception` of analyze_sentiment nor the one
\* of background_fetcher catches it, and the task ends where it was.
Cancel ==
    /\ active = -1
    /\ run[0].pc \in {"start", "analyzing", "sleeping", "interval"}
    /\ run' = [run EXCEPT ![0].pc = "cancelled"]
    /\ UNCHANGED <<posts, posts_fts, now, bgSub, active, sweeps, attempts, calls, obs,
                   journal, readerVars>>

\* the wall clock advances by half a day; a sweep is short against that, so
\* the clock is seen to advance while background_fetcher sleeps between sweeps
Tick ==
    /\ active = -1
    /\ run[0].pc = "interval"
    /\ now < Days(200) + MaxTicks
    /\ now' = now + 1
    /\ UNCHANGED <<posts, posts_fts, run, bgSub, active, sweeps, attempts, calls, obs, journal,
                   readerVars>>


(***************************************************************************)
(* The read handlers.  A handler without an await between its reads is an  *)
(* operator on the store as it is.                                         *)
(***************************************************************************)
\* SELECT rowid FROM posts_fts WHERE posts_fts MATCH q: with an external
\* content table the rowids come from the index alone
FtsMatch(q) == {e[1] : e \in {x \in posts_fts : x[2] = q}}

\* SELECT ... FROM posts WHERE rowid IN (rowids)
RowsIn(rowids) == {r \in posts : r.rowid \in rowids}

\* if subreddits: all_posts = [p for p in all_posts if p.subreddit in sub_list]
\* (a filter is a set of names, {} for no filter)
FilterSubs(rows, subreddits) ==
    IF subreddits = {} THEN rows ELSE {r \in rows : r.subreddit \in subreddits}

\* list.sort(key=..., reverse=True) on rows fetched in rowid order: by key
\* descending, rows with equal keys in rowid order (the sort is stable)
RECURSIVE SortDesc(_, _)
SortDesc(rows, byEngagement) ==
    IF rows = {} THEN <<>>
    ELSE LET Key(r) == IF byEngagement THEN r.score + r.num_comments ELSE r.score
             first == CHOOSE r \in rows : \A o \in rows :
                         \/ Key(r) > Key(o)
                         \/ Key(r) = Key(o) /\ r.rowid <= o.rowid
         IN  <<first>> \o SortDesc(rows \ {first}, byEngagement)

\* all_posts[:limit]
Take(seq, limit) == SubSeq(seq, 1, IF limit < Len(seq) THEN limit ELSE Len(seq))

\* the number of entries of a sequence whose sentiment is in a set
Count(seq, sentiments) ==
    Cardinality({k \in DOMAIN seq : seq[k].sentiment \in sentiments})

\* GET /api/search
search_posts(q, subreddits, limit, sentiment) ==
    LET rowids == FtsMatch(q)
        fetched == FilterSubs(RowsIn(rowids), subreddits)
        wanted == IF sentiment = None THEN fetched
                  ELSE {r \in fetched : r.sentiment = sentiment}
        all_posts == IF rowids = {} THEN <<>> ELSE Take(SortDesc(wanted, FALSE), limit)
    IN  [query |-> q, total_results |-> Len(all_posts),
         positive |-> Count(all_posts, {"positive"}),
         neutral |-> Len(all_posts) - Count(all_posts, {"positive", "negative"}),
         negative |-> Count(all_posts, {"negative"}),
         posts |-> all_posts]

\* variant: the first two thresholds are inclusive
OverallTone_Inclusive(p, n, d) ==
    IF p >= 60 * d THEN "Mostly Positive"
    ELSE IF n >= 60 * d THEN "Mostly Negative"
    ELSE IF p > 40 * d /\ n > 40 * d THEN "Mixed (Polarized)"
    ELSE IF p > 30 * d /\ n < 20 * d THEN "Slightly Positive"
    ELSE IF n > 30 * d /\ p < 20 * d THEN "Slightly Negative"
    ELSE "Neutral/Mixed"

\* search_analysis, "Determine overall tone": the percentages are p / d and n / d
OverallTone(p, n, d) ==
    IF p > 60 * d THEN "Mostly Positive"
    ELSE IF n > 60 * d THEN "Mostly Negative"
    ELSE IF p > 40 * d /\ n > 40 * d THEN "Mixed (Polarized)"
    ELSE IF p > 30 * d /\ n < 20 * d THEN "Slightly Positive"
    ELSE IF n > 30 * d /\ p < 20 * d THEN "Slightly Negative"
    ELSE "Neutral/Mixed"

\* search_analysis_stream.event_generator: the same chain, written out again
OverallToneStream(p, n, d) ==
    IF p > 60 * d THEN "Mostly Positive"
    ELSE IF n > 60 * d THEN "Mostly Negative"
    ELSE IF p > 40 * d /\ n > 40 * d THEN "Mixed (Polarized)"
    ELSE IF p > 30 * d /\ n < 20 * d THEN "Slightly Positive"
    ELSE IF n > 30 * d /\ p < 20 * d THEN "Slightly Negative"
    ELSE "Neutral/Mixed"

\* variant: a sparse timeline, one entry per date that GROUP BY returns
get_timeline_Sparse(subreddit, days) ==
    LET cutoff == now - Days(days)
        rows == {r \in posts : /\ subreddit \in {None, "all"} \/ r.subreddit = subreddit
                               /\ r.created_utc > cutoff
                               /\ r.sentiment # None}
        date_data(date, sentiment) ==
            Cardinality({r \in rows : DATE(r.created_utc) = date /\ r.sentiment = sentiment})
        dates == {DATE(r.created_utc) : r \in rows}
        label(k) == CHOOSE d \in dates : Cardinality({e \in dates : e > d}) = k - 1
        n == Cardinality(dates)
    IN  [labels |-> [k \in 1..n |-> label(k)],
         positive |-> [k \in 1..n |-> date_data(label(k), "positive")],
         neutral |-> [k \in 1..n |-> date_data(label(k), "neutral")],
         negative |-> [k \in 1..n |-> date_data(label(k), "negative")]]

\* GET /api/sentiment/timeline.  Labels are calendar days.
get_timeline(subreddit, days) ==
    LET cutoff == now - Days(days)
        rows == {r \in posts : /\ subreddit \in {None, "all"} \/ r.subreddit = subreddit
                               /\ r.created_utc > cutoff
                               /\ r.sentiment # None}
        \* date_data[date][sentiment] of GROUP BY DATE(created_utc), sentiment
        date_data(date, sentiment) ==
            Cardinality({r \in rows : DATE(r.created_utc) = date /\ r.sentiment = sentiment})
        \* for i in range(days - 1, -1, -1): the k-th pass has i = days - k
        label(k) == DATE(cutoff + Days(days - k))
    IN  [labels |-> [k \in 1..days |-> label(k)],
         positive |-> [k \in 1..days |-> date_data(label(k), "positive")],
         neutral |-> [k \in 1..days |-> date_data(label(k), "neutral")],
         negative |-> [k \in 1..days |-> date_data(label(k), "negative")]]

\* GET /api/sentiment/distribution: the count per sentiment of the classified
\* posts created after the cutoff
get_distribution(subreddit, days) ==
    LET cutoff == now - Days(days)
        rows == {r \in posts : /\ subreddit \in {None, "all"} \/ r.subreddit = subreddit
                               /\ r.created_utc > cutoff
                               /\ r.sentiment # None}
        count(sentiment) == Cardinality({r \in rows : r.sentiment = sentiment})
    IN  [positive |-> count("positive"), neutral |-> count("neutral"),
         negative |-> count("negative")]

\* variant: without posts the share is taken to be the whole
Percent_EmptyIsAll(count, total) ==
    IF total > 0 THEN (count * 2000 + total) \div (2 * total) ELSE 1000

\* round(count / total * 100, 1), in tenths of a percent; 0 when total is 0
Percent(count, total) ==
    IF total > 0 THEN (count * 2000 + total) \div (2 * total) ELSE 0

(***************************************************************************)
(* GET /api/search/analysis and generate_topic_summary.  A response is the *)
(* payload, or the unhandled exception the handler ends in.                *)
(***************************************************************************)
\* the names bound in the body of generate_topic_summary when the prompt is
\* built: its parameters and its locals (the module binds none of the others)
TopicNames == {"query", "posts", "positive", "negative", "neutral", "tone",
               "snippets", "post", "content", "content_text"}

\* the names the f-string of the prompt reads
TopicPromptNames == {"query", "positive_count", "negative_count", "neutral_count",
                     "overall_tone", "content_text"}

\* f"Found {len(posts)} discussions about '{query}'. The community sentiment is
\* {tone.lower()} with {positive} positive, {negative} negative, and {neutral}
\* neutral reactions. People seem to be discussing {query} with varied opinions."
TopicFallback(n, tone_, positive, negative, neutral) ==
    [kind |-> "fallback", n |-> n, tone |-> tone_, positive |-> positive,
     negative |-> negative, neutral |-> neutral]

\* generate_topic_summary: what the call can end in.  Reading a name that is
\* not bound raises NameError, before the try.
generate_topic_summary(query, posts_, positive, negative, neutral, tone_) ==
    IF posts_ = <<>>
    THEN {[raised |-> FALSE,
           summary |-> [kind |-> "nodiscussions", n |-> 0, tone |-> "", positive |-> 0,
                        negative |-> 0, neutral |-> 0]]}
    ELSE IF ~(TopicPromptNames \subseteq TopicNames)
    THEN {[raised |-> TRUE,
           summary |-> [kind |-> "NameError", n |-> 0, tone |-> "", positive |-> 0,
                        negative |-> 0, neutral |-> 0]]}
    ELSE {[raised |-> FALSE,
           summary |-> [kind |-> "content", n |-> 0, tone |-> "", positive |-> 0,
                        negative |-> 0, neutral |-> 0]],
          [raised |-> FALSE,
           summary |-> TopicFallback(Len(posts_), tone_, positive, negative, neutral)]}

\* search_analysis: the responses the handler can give
search_analysis(q, subreddits, limit) ==
    LET rowids == FtsMatch(q)
        all_posts == Take(SortDesc(FilterSubs(RowsIn(rowids), subreddits), TRUE), limit)
        IsPositive(r) == r.sentiment = "positive"
        IsNegative(r) == r.sentiment = "negative"
        IsOther(r) == r.sentiment # "positive" /\ r.sentiment # "negative"
        positive_count == Len(SelectSeq(all_posts, IsPositive))
        negative_count == Len(SelectSeq(all_posts, IsNegative))
        neutral_count == Len(SelectSeq(all_posts, IsOther))
        total == Len(all_posts)
        overall_tone == IF total > 0
                        THEN OverallTone(100 * positive_count, 100 * negative_count, total)
                        ELSE OverallTone(0, 0, 1)
    IN  IF rowids = {}
        THEN {[raised |-> FALSE, query |-> q, total |-> 0, positive |-> 0, neutral |-> 0,
               negative |-> 0, positive_percent |-> 0, negative_percent |-> 0,
               overall_tone |-> "Unknown",
               summary |-> [kind |-> "notfound", n |-> 0, tone |-> "", positive |-> 0,
                            negative |-> 0, neutral |-> 0]]}
        ELSE {[raised |-> out.raised, query |-> q, total |-> total,
               positive |-> positive_count, neutral |-> neutral_count,
               negative |-> negative_count,
               positive_percent |-> Percent(positive_count, total),
               negative_percent |-> Percent(negative_count, total),
               overall_tone |-> overall_tone,
               summary |-> out.summary] :
                 out \in generate_topic_summary(q, all_posts, positive_count,
                                                negative_count, neutral_count,
                                                overall_tone)}

(***************************************************************************)
(* GET /api/search/analysis/stream: event_generator, one step per stretch  *)
(* between two suspensions (a yield, or an await on the summarizer).       *)
(***************************************************************************)
\* the query parameters a streaming request is made with
StreamFilters == {{}, {"OpenAI"}}

\* the content chunks the summarizer streams, in the order it sends them
Chunks == <<"a", "b", "c">>

NoStats == [positive |-> 0, neutral |-> 0, negative |-> 0, total |-> 0,
            positive_percent |-> 0, negative_percent |-> 0, overall_tone |-> "Unknown"]

NoExamples == [positive |-> <<>>, negative |-> <<>>, neutral |-> <<>>]

\* f"No posts found about '{q}'"
NotFoundSummary == [kind |-> "notfound", text |-> <<>>, n |-> 0, tone |-> "",
                    positive |-> 0, negative |-> 0, neutral |-> 0]

\* f"Found {len(all_posts)} discussions about '{q}'. The community sentiment is
\* {overall_tone.lower()} with {positive_count} positive, {negative_count}
\* negative, and {neutral_count} neutral reactions."
Fallback(n, st) == [kind |-> "fallback", text |-> <<>>, n |-> n, tone |-> st.overall_tone,
                    positive |-> st.positive, negative |-> st.negative,
                    neutral |-> st.neutral]

\* the accumulated chunks as the summary
TextSummary(acc) == [kind |-> "text", text |-> acc, n |-> 0, tone |-> "",
                     positive |-> 0, negative |-> 0, neutral |-> 0]

Event(kind) == [event |-> kind, message |-> "", stats |-> NoStats, chunk |-> "",
                accumulated |-> <<>>, summary |-> NotFoundSummary,
                examples |-> NoExamples]

StatusEvent(message) == [Event("status") EXCEPT !.message = message]

CompleteEvent(summary, st, ex) ==
    [Event("complete") EXCEPT !.summary = summary, !.stats = st, !.examples = ex]

\* make_citation
make_citation(r) ==
    [id |-> r.id, title |-> r.title, subreddit |-> r.subreddit,
     sentiment |-> IF r.sentiment = None THEN "unknown" ELSE r.sentiment,
     score |-> r.score]

\* event_generator from "Filter by subreddits" to the citations: the
\* statistics block and the example lists of the rows fetched
StreamAnalysis(rows, subreddits, limit) ==
    LET all_posts == Take(SortDesc(FilterSubs(rows, subreddits), TRUE), limit)
        IsPositive(r) == r.sentiment = "positive"
        IsNegative(r) == r.sentiment = "negative"
        IsOther(r) == r.sentiment \notin {"positive", "negative"}
        positive_posts == SelectSeq(all_posts, IsPositive)
        negative_posts == SelectSeq(all_posts, IsNegative)
        neutral_posts == SelectSeq(all_posts, IsOther)
        total == Len(all_posts)
        Cite(seq) == [k \in 1..Len(Take(seq, 3)) |-> make_citation(seq[k])]
    IN  [stats |-> [positive |-> Len(positive_posts),
                    neutral |-> Len(neutral_posts),
                    negative |-> Len(negative_posts),
                    total |-> total,
                    positive_percent |-> Percent(Len(positive_posts), total),
                    negative_percent |-> Percent(Len(negative_posts), total),
                    overall_tone |->
                        IF total > 0
                        THEN OverallToneStream(100 * Len(positive_posts),
                                               100 * Len(negative_posts), total)
                        ELSE OverallToneStream(0, 0, 1)],
         examples |-> [positive |-> Cite(positive_posts),
                       negative |-> Cite(negative_posts),
                       neutral |-> Cite(neutral_posts)]]

IdleStream == [pc |-> "idle", q |-> "", subreddits |-> {}, limit |-> 0, rowids |-> {},
               stats |-> NoStats, examples |-> NoExamples, bound |-> FALSE,
               accumulated |-> NotFoundSummary, matching |-> 0, outcome |-> ""]

ingestVars == <<posts, posts_fts, now, run, bgSub, active, sweeps, attempts, calls, obs,
               journal>>

\* the request arrives: connect, yield the "Searching" status
StreamStart ==
    /\ stream.pc = "idle"
    /\ active = -1
    /\ \E q \in Tokens, subreddits \in StreamFilters :
         stream' = [IdleStream EXCEPT !.pc = "searching", !.q = q,
                                      !.subreddits = subreddits, !.limit = 30]
    /\ events' = <<StatusEvent("searching")>>
    /\ UNCHANGED <<ingestVars, tone, reply>>

\* the FTS query; without rowids the complete event of "not found" and return,
\* else the "Found" status
StreamSearch ==
    /\ stream.pc = "searching"
    /\ active = -1
    /\ LET rowids == FtsMatch(stream.q)
           \* observed, not used: the stored posts that match the query, which
           \* is its token and its subreddit filter
           matching == Cardinality(FilterSubs({r \in posts : r.title = stream.q},
                                              stream.subreddits))
       IN  IF rowids = {}
           THEN /\ stream' = [stream EXCEPT !.pc = "completed", !.matching = matching]
                /\ events' = Append(events,
                                    CompleteEvent(NotFoundSummary, NoStats, NoExamples))
           ELSE /\ stream' = [stream EXCEPT !.pc = "found", !.rowids = rowids,
                                            !.matching = matching]
                /\ events' = Append(events, StatusEvent("found"))
    /\ UNCHANGED <<ingestVars, tone, reply>>

\* variant: the statistics are computed but no sentiment event is yielded
StreamFetch_Silent ==
    /\ stream.pc = "found"
    /\ active = -1
    /\ LET a == StreamAnalysis(RowsIn(stream.rowids), stream.subreddits, stream.limit)
       IN  stream' = [stream EXCEPT !.pc = "stats", !.stats = a.stats,
                                    !.examples = a.examples]
    /\ UNCHANGED <<ingestVars, tone, reply, events>>

\* fetch the rows, compute statistics and citations, yield the sentiment event
StreamFetch ==
    /\ stream.pc = "found"
    /\ active = -1
    /\ LET a == StreamAnalysis(RowsIn(stream.rowids), stream.subreddits, stream.limit)
       IN  /\ stream' = [stream EXCEPT !.pc = "stats", !.stats = a.stats,
                                       !.examples = a.examples]
           /\ events' = Append(events, [Event("sentiment") EXCEPT !.stats = a.stats])
    /\ UNCHANGED <<ingestVars, tone, reply>>

\* yield the "Generating AI summary" status
StreamSummarizing ==
    /\ stream.pc = "stats"
    /\ active = -1
    /\ stream' = [stream EXCEPT !.pc = "summarizing"]
    /\ events' = Append(events, StatusEvent("summarizing"))
    /\ UNCHANGED <<ingestVars, tone, reply>>

\* build the prompt and await session.post
StreamPost ==
    /\ stream.pc = "summarizing"
    /\ active = -1
    /\ stream' = [stream EXCEPT !.pc = "posting"]
    /\ UNCHANGED <<ingestVars, tone, reply, events>>

\* variant: the complete event always carries the fallback text
Complete_AlwaysFallback(s) ==
    /\ stream' = [s EXCEPT !.pc = "completed"]
    /\ events' = Append(events,
                   CompleteEvent(Fallback(s.stats.total, s.stats), s.stats, s.examples))

\* the complete event at the end of the generator: accumulated when it is
\* bound, else the fallback text ("accumulated" not in dir())
Complete(s) ==
    /\ stream' = [s EXCEPT !.pc = "completed"]
    /\ events' = Append(events,
                   CompleteEvent(IF s.bound THEN s.accumulated
                                 ELSE Fallback(s.stats.total, s.stats),
                                 s.stats, s.examples))

\* variant: an exception of the call leaves the generator, no complete event
StreamResponse_Abort ==
    /\ stream.pc = "posting"
    /\ active = -1
    /\ \E outcome \in {"exception", "status", "ok"} :
         CASE outcome = "exception" ->
                /\ stream' = [stream EXCEPT !.pc = "aborted", !.outcome = outcome]
                /\ UNCHANGED events
           [] outcome = "status" -> Complete([stream EXCEPT !.outcome = outcome])
           [] outcome = "ok" ->
                /\ stream' = [stream EXCEPT !.pc = "reading", !.bound = TRUE,
                                            !.outcome = outcome,
                                            !.accumulated = TextSummary(<<>>)]
                /\ UNCHANGED events
    /\ UNCHANGED <<ingestVars, tone, reply>>

\* the summarizer answers the POST: an exception (connection error, timeout)
\* binds the fallback text; a status other than 200 leaves accumulated unbound;
\* 200 binds accumulated = "" and awaits the first line
StreamResponse ==
    /\ stream.pc = "posting"
    /\ active = -1
    /\ \E outcome \in {"exception", "status", "ok"} :
         CASE outcome = "exception" ->
                Complete([stream EXCEPT !.bound = TRUE, !.outcome = outcome,
                            !.accumulated = Fallback(stream.stats.total, stream.stats)])
           [] outcome = "status" -> Complete([stream EXCEPT !.outcome = outcome])
           [] outcome = "ok" ->
                /\ stream' = [stream EXCEPT !.pc = "reading", !.bound = TRUE,
                                            !.outcome = outcome,
                                            !.accumulated = TextSummary(<<>>)]
                /\ UNCHANGED events
    /\ UNCHANGED <<ingestVars, tone, reply>>

\* variant: the summary_chunk event carries the chunk alone as accumulated text
StreamLine_ChunkOnly ==
    /\ stream.pc = "reading"
    /\ active = -1
    /\ \/ LET k == Len(stream.accumulated.text) + 1
              acc == Append(stream.accumulated.text, Chunks[k])
          IN  /\ k <= MaxChunks
              /\ k <= Len(Chunks)
              /\ stream' = [stream EXCEPT !.accumulated = TextSummary(acc)]
              /\ events' = Append(events, [Event("summary_chunk") EXCEPT
                                             !.chunk = Chunks[k],
                                             !.accumulated = <<Chunks[k]>>])
       \/ Complete(stream)
       \/ Complete([stream EXCEPT !.outcome = "exception",
                      !.accumulated = Fallback(stream.stats.total, stream.stats)])
    /\ UNCHANGED <<ingestVars, tone, reply>>

\* async for line in response.content: a data line with content is added to
\* accumulated and yielded as a summary_chunk; the end of the response leads
\* to the complete event; an exception while reading binds the fallback text.
\* (A line without the "data: " prefix, without content or with malformed
\* JSON changes nothing: a stuttering step.)
StreamLine ==
    /\ stream.pc = "reading"
    /\ active = -1
    /\ \/ LET k == Len(stream.accumulated.text) + 1
              acc == Append(stream.accumulated.text, Chunks[k])
          IN  /\ k <= MaxChunks
              /\ k <= Len(Chunks)
              /\ stream' = [stream EXCEPT !.accumulated = TextSummary(acc)]
              /\ events' = Append(events, [Event("summary_chunk") EXCEPT
                                             !.chunk = Chunks[k], !.accumulated = acc])
       \/ Complete(stream)
       \/ Complete([stream EXCEPT !.outcome = "exception",
                      !.accumulated = Fallback(stream.stats.total, stream.stats)])
    /\ UNCHANGED <<ingestVars, tone, reply>>

\* variant: closing the generator clears the full-text index
StreamAbandon_Purge ==
    /\ stream.pc \in {"searching", "found", "stats", "summarizing", "posting", "reading"}
    /\ active = -1
    /\ stream' = [stream EXCEPT !.pc = "abandoned"]
    /\ posts_fts' = {}
    /\ UNCHANGED <<posts, now, run, bgSub, active, sweeps, attempts, calls, obs, journal,
                   tone, reply, events>>

\* the consumer goes away: the generator is closed where it is suspended, at
\* the yield of its latest event or at an await of the summarizer call, and
\* nothing after that point runs
StreamAbandon ==
    /\ stream.pc \in {"searching", "found", "stats", "summarizing", "posting", "reading"}
    /\ active = -1
    /\ stream' = [stream EXCEPT !.pc = "abandoned"]
    /\ UNCHANGED <<ingestVars, tone, reply, events>>

(***************************************************************************)
(* analyze_sentiment on one answer of the llama.cpp server.  A completion  *)
(* is a sequence of tokens, each a word or a signed decimal number (in     *)
(* tenths); scores are in tenths.                                          *)
(***************************************************************************)
Word(w) == [word |-> w, num |-> <<>>]
Num(v) == [word |-> "", num |-> <<v>>]

\* the tokens a completion is made of
CompletionTokens ==
    {Word(w) : w \in {"POSITIVE", "positive", "Negative", "NEUTRAL"}}
        \cup {Num(v) : v \in {-20, -5, 8, 10, 15}}

Completions == UNION {[1..k -> CompletionTokens] : k \in 0..MaxTokens}

\* str.upper() on the words that occur
Upper(w) ==
    CASE w = "positive" -> "POSITIVE"
      [] w = "Negative" -> "NEGATIVE"
      [] OTHER -> w

\* "POSITIVE" in completion.upper() ... elif "NEGATIVE" in completion.upper()
Has(completion, w) == \E k \in DOMAIN completion : Upper(completion[k].word) = w

\* variant: NEGATIVE is looked for first
Category_NegativeFirst(completion) ==
    IF Has(completion, "NEGATIVE") THEN "negative"
    ELSE IF Has(completion, "POSITIVE") THEN "positive"
    ELSE "neutral"

\* sentiment = "neutral", then the if / elif on the completion
Category(completion) ==
    IF Has(completion, "POSITIVE") THEN "positive"
    ELSE IF Has(completion, "NEGATIVE") THEN "negative"
    ELSE "neutral"

\* score = 0.0, 0.7 with positive, -0.7 with negative
DefaultScore(sentiment) ==
    CASE sentiment = "positive" -> 7
      [] sentiment = "negative" -> -7
      [] OTHER -> 0

\* variant: the number found is taken whatever its value
Score_Unchecked(completion, default) ==
    LET nums == {k \in DOMAIN completion : completion[k].num # <<>>}
    IN  IF nums = {} THEN default
        ELSE completion[CHOOSE k \in nums : \A j \in nums : k <= j].num[1]

\* re.search(r"[-+]?\d*\.?\d+", completion): the first number, which
\* replaces the score if -1.0 <= s <= 1.0
Score(completion, default) ==
    LET nums == {k \in DOMAIN completion : completion[k].num # <<>>}
        s == completion[CHOOSE k \in nums : \A j \in nums : k <= j].num[1]
    IN  IF nums # {} /\ -10 <= s /\ s <= 10 THEN s ELSE default

\* what analyze_sentiment returns: (None, None) when the request raises
\* (connection error, timeout, a body that is not JSON) or the status is not
\* 200, else the parsed completion
analyze_sentiment_response(outcome, completion) ==
    IF outcome # "ok" THEN <<None, <<>>>>
    ELSE <<Category(completion), <<Score(completion, DefaultScore(Category(completion)))>>>>

NoReply == [outcome |-> "", completion |-> <<>>, sentiment |-> "", score |-> <<>>,
            returned |-> FALSE]

\* one call of analyze_sentiment returns
Classify ==
    /\ ~reply.returned
    /\ LET res == analyze_sentiment_response(reply.outcome, reply.completion)
       IN  reply' = [reply EXCEPT !.sentiment = res[1], !.score = res[2],
                                  !.returned = TRUE]
    /\ UNCHANGED <<ingestVars, stream, events, tone>>

(***************************************************************************)
(* The overall tone as a function of the two percentages, both endpoints.  *)
(* Percentages are counted in halves: tone.p / 2 and tone.n / 2.           *)
(***************************************************************************)
NoTone == [p |-> 0, n |-> 0, analysis |-> "", streamed |-> ""]

ToneApply ==
    /\ tone.analysis = ""
    /\ tone' = [tone EXCEPT !.analysis = OverallTone(tone.p, tone.n, 2),
                            !.streamed = OverallToneStream(tone.p, tone.n, 2)]
    /\ UNCHANGED <<ingestVars, stream, events, reply>>

(***************************************************************************)
(* Specifications.                                                         *)
(***************************************************************************)
\* after init_db on an empty database, with the background task created
InitStore ==
    /\ posts = {}
    /\ posts_fts = {}
    /\ now = Days(200)
    /\ run = [p \in Procs |-> IF IsBg(p) THEN [IdleRun EXCEPT !.pc = "start"] ELSE IdleRun]
    /\ bgSub = 1
    /\ active = -1
    /\ sweeps = 0
    /\ attempts = <<>>
    /\ calls = [id \in Ids |-> 0]
    /\ obs = [p \in Procs |-> NoObs]
    /\ journal = [stored |-> "", removed |-> {}, cleanups |-> 0]
    /\ stream = IdleStream
    /\ events = <<>>

Init == InitStore /\ tone = NoTone /\ reply = NoReply

\* the steps of background_fetcher
NextBg ==
    \/ BgSweep
    \/ BgFetch
    \/ AnalyzeDone(0)
    \/ Wake(0)
    \/ BgCleanup

\* no run of fetch_and_analyze_subreddit is under way
NoRun == \A p \in Procs : run[p].pc \notin {"fetch", "analyzing", "sleeping", "cleanup"}

\* one run at a time: the background task and the manual triggers, a run
\* starting only when no other run is under way
NextSeq ==
    \/ NoRun /\ BgSweep
    \/ BgFetch
    \/ BgCleanup
    \/ Tick
    \/ \E p \in Procs : AnalyzeDone(p)
    \/ \E p \in Procs : Wake(p)
    \/ \E t \in Procs : NoRun /\ TriggerStart(t)

SpecSeq == Init /\ [][NextSeq]_vars

\* the background task alone, and the clock
NextSweep ==
    \/ NextBg
    \/ Tick

SpecSweep == Init /\ [][NextSweep]_vars

\* the background task alone, with one sweep more
NextResweep ==
    \/ NextSweep
    \/ BgSweepAgain

SpecResweep == Init /\ [][NextResweep]_vars

\* the background task and the shutdown of the application
NextShutdown == NextSweep \/ Cancel

SpecShutdown == Init /\ [][NextShutdown]_vars

\* the background task with the database failing under it
NextFaults ==
    \/ NextSweep
    \/ BgStoreRaises
    \/ BgCleanupRaises

SpecFaults == Init /\ [][NextFaults]_vars

\* the steps of one streaming analysis request
NextReader ==
    \/ StreamStart
    \/ StreamSearch
    \/ StreamFetch
    \/ StreamSummarizing
    \/ StreamPost
    \/ StreamResponse
    \/ StreamLine

\* the background task and the manual triggers on one event loop
Next ==
    \/ BgSweep
    \/ BgFetch
    \/ BgCleanup
    \/ Tick
    \/ \E p \in Procs : AnalyzeDone(p)
    \/ \E p \in Procs : Wake(p)
    \/ \E t \in Procs : TriggerStart(t)

Spec == Init /\ [][Next]_vars

\* the background task and one streaming analysis request
NextStream ==
    \/ NextSweep
    \/ NextReader

SpecStream == Init /\ [][NextStream]_vars

\* the same, with a consumer that may go away
NextAbandon ==
    \/ NextStream
    \/ StreamAbandon

SpecAbandon == Init /\ [][NextAbandon]_vars

\* the tone computation on every pair of percentages, in halves of a percent
InitTone ==
    /\ InitStore
    /\ reply = NoReply
    /\ \E p, n \in 0..200 : p + n <= 200 /\ tone = [NoTone EXCEPT !.p = p, !.n = n]

SpecTone == InitTone /\ [][ToneApply]_vars

\* created_utc of a stored post, relative to the cutoff of the first cleanup
RetentionAges == {-1, 0, 1}

\* the rowid of the row of `id` in a store filled in the order p1, p2, p3
IdRowid(id) == CASE id = "p1" -> 1 [] id = "p2" -> 2 [] id = "p3" -> 3

\* background_fetcher about to call cleanup_old_posts, on every store of
\* indexed posts created just before, at and just after the cutoff; the call
\* happens at the time the cutoff was taken for, or half a day later
InitRetention ==
    /\ tone = NoTone
    /\ reply = NoReply
    /\ now \in {Days(200), Days(200) + 1}
    /\ \E S \in SUBSET Ids : \E age \in [S -> RetentionAges] :
          /\ posts = {[rowid |-> IdRowid(id), id |-> id, title |-> SourcePost(id).title,
                       subreddit |-> SourcePost(id).subreddit,
                       created_utc |-> Days(200) - Days(KEEP_MONTHS * 30) + age[id],
                       score |-> SourcePost(id).score,
                       num_comments |-> SourcePost(id).num_comments,
                       sentiment |-> None, sentiment_score |-> <<>>,
                       analyzed_at |-> <<Days(200)>>] : id \in S}
          /\ posts_fts = {<<IdRowid(id), SourcePost(id).title>> : id \in S}
    /\ run = [p \in Procs |-> IF IsBg(p) THEN [IdleRun EXCEPT !.pc = "cleanup"] ELSE IdleRun]
    /\ bgSub = 1
    /\ active = 0
    /\ sweeps = 1
    /\ attempts = <<>>
    /\ calls = [id \in Ids |-> 0]
    /\ obs = [p \in Procs |-> NoObs]
    /\ journal = [stored |-> "", removed |-> {}, cleanups |-> 0]
    /\ stream = IdleStream
    /\ events = <<>>

SpecRetention == InitRetention /\ [][BgCleanup]_vars

\* one analyze_sentiment call on every answer of the server
InitClassify ==
    /\ InitStore
    /\ tone = NoTone
    /\ \E outcome \in {"exception", "status", "ok"}, completion \in Completions :
          reply = [NoReply EXCEPT !.outcome = outcome, !.completion = completion]

SpecClassify == InitClassify /\ [][Classify]_vars

(***************************************************************************)
(* Properties.                                                             *)
(***************************************************************************)
\* the subreddit parameter and the windows the timeline is asked for
TimelineSubs == {None, "all", "LocalLLaMA", "OpenAI"}

\* C1 -- write-once classification under re-ingestion: when a run of
\* fetch_and_analyze_subreddit has returned, every post that was in the store
\* when the run started is still there with the sentiment, sentiment_score
\* and analyzed_at it had, whatever the source returned.  (SpecSeq: no other
\* run between the start and the return of the run.)
C1_WriteOnce ==
    \A p \in Procs :
        obs[p].ended =>
            \A r \in obs[p].before.posts :
                \E r2 \in posts :
                    /\ r2.id = r.id
                    /\ r2.sentiment = r.sentiment
                    /\ r2.sentiment_score = r.sentiment_score
                    /\ r2.analyzed_at = r.analyzed_at

\* a run has returned whose source held a stored post and a new one, which
\* the run classified and stored
C1_Reingested ==
    \E p \in Procs : obs[p].ended /\ obs[p].someExisted /\ obs[p].writes > 0

\* C2 -- idempotent re-ingestion: a run over a source whose every returned
\* post is already stored calls analyze_sentiment zero times, writes nothing
\* (table and index are as they were when it started) and returns 0
C2_Idempotent ==
    \A p \in Procs :
        (obs[p].ended /\ obs[p].allExisted) =>
            /\ obs[p].calls = 0
            /\ obs[p].writes = 0
            /\ posts = obs[p].before.posts
            /\ posts_fts = obs[p].before.posts_fts
            /\ run[p].analyzed = 0

\* a run has returned whose source returned posts, all of them stored already
C2_AllExisted ==
    \E p \in Procs : obs[p].ended /\ obs[p].allExisted /\ obs[p].someExisted

\* C3 -- at-most-once classification under concurrency: across the
\* interleavings of the background sweep and the manual triggers,
\* analyze_sentiment is called at most once for every post id
C3_AtMostOnce == \A id \in Ids : calls[id] <= 1

\* C4 -- record/index consistency: the row identities in the full-text index
\* are the row identities in the posts table
C4_IndexConsistent == {e[1] : e \in posts_fts} = {r.rowid : r \in posts}

\* C5 -- store/search round trip: while the latest write is the store_post of
\* a post, a search on the token of its title returns that post, and a search
\* on the token of a post that cleanup_old_posts has removed does not return it
C5_RoundTrip ==
    /\ \A id \in Ids :
          journal.stored = id =>
              LET found == search_posts(SourcePost(id).title, {}, 50, None).posts
              IN  \E k \in DOMAIN found : found[k].id = id
    /\ \A id \in journal.removed :
          LET found == search_posts(SourcePost(id).title, {}, 50, None).posts
          IN  \A k \in DOMAIN found : found[k].id # id

\* a post has just been stored while another post with the same token is
\* removed: the search returns the one and not the other
C5_StoredAndRemoved ==
    \E id \in Ids, gone \in journal.removed :
        /\ journal.stored = id
        /\ SourcePost(gone).title = SourcePost(id).title

C7_Dense ==
    \A subreddit \in TimelineSubs, days \in 1..MaxDays :
        LET t == get_timeline(subreddit, days)
        IN  /\ DOMAIN t.labels = 1..days
            /\ DOMAIN t.positive = 1..days
            /\ DOMAIN t.neutral = 1..days
            /\ DOMAIN t.negative = 1..days
            /\ \A j, k \in 1..days : j # k => t.labels[j] # t.labels[k]
            /\ \A k \in 1..days :
                  (\A r \in posts : DATE(r.created_utc) # t.labels[k]) =>
                      t.positive[k] + t.neutral[k] + t.negative[k] = 0

\* a two-day timeline with a post on its first label and none on its second
C7_SomeAndNone ==
    LET t == get_timeline(None, 2)
    IN  /\ t.positive[1] + t.neutral[1] + t.negative[1] > 0
        /\ t.positive[2] + t.neutral[2] + t.negative[2] = 0

\* C8 -- timeline window and order: the labels are `days` consecutive
\* calendar days, oldest first, the last of them today's date
C8_EndsToday ==
    \A subreddit \in TimelineSubs, days \in 1..MaxDays :
        LET t == get_timeline(subreddit, days)
        IN  /\ t.labels[days] = DATE(now)
            /\ \A k \in 1..(days - 1) : t.labels[k + 1] = t.labels[k] + 1

C10_ProtocolOrder ==
    (stream.pc \notin {"idle", "searching"} /\ stream.rowids # {}) =>
        /\ \A k \in DOMAIN events :
              CASE k = 1 -> events[k] = StatusEvent("searching")
                [] k = 2 -> events[k] = StatusEvent("found")
                [] k = 3 -> events[k].event = "sentiment"
                [] k = 4 -> events[k] = StatusEvent("summarizing")
                [] OTHER -> \/ events[k].event = "summary_chunk"
                            \/ events[k].event = "complete" /\ k = Len(events)
        /\ stream.pc = "completed" <=>
              (events # <<>> /\ events[Len(events)].event = "complete")

\* a stream for a query with matches has finished after its summary chunks
C10_ChunksThenComplete ==
    /\ stream.pc = "completed"
    /\ stream.rowids # {}
    /\ \E k \in DOMAIN events : events[k].event = "summary_chunk"

\* C11 -- fallback summary: in a finished stream for a query with matches,
\* when the summarizer call failed (exception, timeout, status other than 200)
\* or its 200 response gave no content chunk, the summary of the complete
\* event is the fallback text built from the post count, the query, the tone
\* and the three counts; and the summary is never empty
C11_Fallback ==
    (stream.pc = "completed" /\ stream.rowids # {}) =>
        LET last == events[Len(events)]
            chunks == {k \in DOMAIN events : events[k].event = "summary_chunk"}
        IN  /\ (stream.outcome \in {"exception", "status"} \/ chunks = {}) =>
                  last.summary = Fallback(stream.stats.total, stream.stats)
            /\ last.summary # TextSummary(<<>>)

\* C12 (as stated) -- closed classifier output: analyze_sentiment returns a
\* category in {positive, neutral, negative} and, when it returns a score,
\* the score lies in [-1.0, 1.0]
C12_Closed ==
    reply.returned =>
        /\ reply.sentiment \in {"positive", "neutral", "negative"}
        /\ reply.score # <<>> => (-10 <= reply.score[1] /\ reply.score[1] <= 10)

\* C12 (amended) -- analyze_sentiment returns either the unset pair, and only
\* when the request failed or the status is not 200, or a category in
\* {positive, neutral, negative} together with a score in [-1.0, 1.0]
C12_ClosedOrUnset ==
    reply.returned =>
        IF reply.outcome # "ok"
        THEN reply.sentiment = None /\ reply.score = <<>>
        ELSE /\ reply.sentiment \in {"positive", "neutral", "negative"}
             /\ reply.score # <<>>
             /\ -10 <= reply.score[1] /\ reply.score[1] <= 10

\* a completion whose first number is 1.5 has been parsed: the default is kept
C12_OutOfRange ==
    /\ reply.returned
    /\ reply.completion = <<Word("POSITIVE"), Num(15)>>
    /\ reply.score = <<7>>

\* C13 -- classifier parsing policy: on a 200 response the category is
\* positive if the completion contains POSITIVE in any case, else negative if
\* it contains NEGATIVE, else neutral; the score is the first number of the
\* completion if that lies in [-1.0, 1.0], else the default of the category
\* (+0.7, -0.7, 0.0); the category does not depend on the number
C13_Parsing ==
    (reply.returned /\ reply.outcome = "ok") =>
        LET c == reply.completion
            words == {c[k].word : k \in DOMAIN c}
            positive == words \cap {"POSITIVE", "positive"} # {}
            negative == words \cap {"NEGATIVE", "Negative"} # {}
            numbers == SelectSeq(c, LAMBDA t : t.num # <<>>)
            default == IF positive THEN 7 ELSE IF negative THEN -7 ELSE 0
        IN  /\ reply.sentiment = IF positive THEN "positive"
                                 ELSE IF negative THEN "negative" ELSE "neutral"
            /\ reply.score = IF numbers # <<>> /\ numbers[1].num[1] \in -10..10
                             THEN numbers[1].num ELSE <<default>>

\* a completion with POSITIVE and the number -0.5 has been parsed: category
\* and sign of the score disagree
C13_Disagree ==
    /\ reply.returned
    /\ reply.completion = <<Word("positive"), Num(-5)>>
    /\ reply.sentiment = "positive"
    /\ reply.score = <<-5>>

\* C14 -- source failure isolation: the sources a sweep has attempted are the
\* first ones of AI_SUBREDDITS, each once and in order, whether or not an
\* earlier one raised; the for loop goes on to the next source after each, and
\* cleanup is reached only when every source has been attempted
C14_Isolation ==
    /\ Len(attempts) <= Len(AI_SUBREDDITS)
    /\ \A k \in DOMAIN attempts : attempts[k].subreddit = AI_SUBREDDITS[k]
    /\ run[0].pc = "fetch" => bgSub = Len(attempts) + 1
    /\ run[0].pc \in {"analyzing", "sleeping"} => bgSub = Len(attempts)
    /\ run[0].pc = "cleanup" => Len(attempts) = Len(AI_SUBREDDITS)

\* the first source of a sweep raised and every source has been attempted
C14_FailedThenAll ==
    /\ run[0].pc = "cleanup"
    /\ attempts[1].raised
    /\ Len(attempts) = Len(AI_SUBREDDITS)

\* C15 -- the background loop never dies from a failure: background_fetcher
\* does not terminate when cleanup_old_posts, a post or a source fails
C15_NeverDies == run[0].pc # "dead"

\* C16 -- classification failure handling: a post for which analyze_sentiment
\* returned the unset pair is stored, with sentiment and sentiment_score
\* unset; a run calls analyze_sentiment at most once per post; and when the
\* run returns every post the source returned is stored
C16_UnsetStored ==
    \A p \in Procs :
        /\ \A id \in obs[p].unsetIds :
              \E r \in posts : /\ r.id = id
                               /\ r.sentiment = None
                               /\ r.sentiment_score = <<>>
        /\ obs[p].calls = Cardinality(obs[p].classified)
        /\ obs[p].ended => obs[p].missed = {}

\* a run has returned in which a classification failed and a later post of
\* the source was classified and stored
C16_UnsetThenMore ==
    \E p \in Procs : obs[p].ended /\ obs[p].unsetIds # {} /\ obs[p].afterUnset > 0

\* C17 -- unset sentiment is excluded from every bucket: in the counts of
\* search_posts, of search_analysis and of the streaming analysis, the three
\* counts add up to the number of returned posts whose sentiment is set
C17_UnsetExcluded ==
    \A q \in Tokens :
        LET res == search_posts(q, {}, 50, None)
            set == Cardinality({k \in DOMAIN res.posts : res.posts[k].sentiment # None})
            st == StreamAnalysis(RowsIn(FtsMatch(q)), {}, 30).stats
        IN  /\ res.positive + res.neutral + res.negative = set
            /\ st.positive + st.neutral + st.negative = set
            /\ \A a \in search_analysis(q, {}, 30) :
                  a.positive + a.neutral + a.negative = set

\* C18 -- non-streaming topical analysis completes: for a query with at least
\* one matching post search_analysis returns the payload, with a summary that
\* is the summarizer's text or the fallback text, and never ends in an
\* unhandled error
C18_Completes ==
    \A q \in Tokens :
        (\E r \in posts : r.title = q) =>
            \A a \in search_analysis(q, {}, 30) :
                ~a.raised /\ a.summary.kind \in {"content", "fallback"}

\* C19 -- retention deletes exactly the expired posts: a cleanup removes every
\* row created before the cutoff together with its index entry, and leaves
\* every row created at or after the cutoff, and its index entry, as they were
C19_ExactlyExpired ==
    [][BgCleanup =>
         LET cutoff == now - Days(KEEP_MONTHS * 30)
         IN  /\ \A r \in posts :
                   r.created_utc < cutoff =>
                       /\ ~ \E k \in posts' : k.id = r.id
                       /\ <<r.rowid, r.title>> \notin posts_fts'
             /\ \A r \in posts :
                   r.created_utc >= cutoff =>
                       /\ r \in posts'
                       /\ <<r.rowid, r.title>> \in posts_fts'
             /\ posts' \subseteq posts
             /\ posts_fts' \subseteq posts_fts]_vars

\* a cleanup has removed an expired post and kept a post created at the cutoff
C19_RemovedAndKept ==
    /\ run[0].pc = "interval"
    /\ journal.removed # {}
    /\ \E r \in posts : r.created_utc = now - Days(KEEP_MONTHS * 30)

\* C20 -- graceful shutdown of ingestion: when the background task is
\* cancelled while a new post is in flight (during its classification or the
\* rate-limit delay after it), the classification result of that post is
\* stored, and no further post is classified
C20_CurrentFinished ==
    (run[0].pc = "cancelled" /\ run[0].i > 0) =>
        /\ Exists(run[0].posts[run[0].i].id)
        /\ obs[0].calls = obs[0].writes

\* C21 -- cleanup once per sweep: cleanup_old_posts has been invoked once for
\* every finished sweep of background_fetcher and not yet for the sweep under
\* way; it is invoked after every configured source has been attempted,
\* whether or not a source raised, and before the interval sleep; the runs of
\* trigger_analysis add no invocation
C21_OncePerSweep ==
    /\ run[0].pc = "start" => journal.cleanups = 0 /\ sweeps = 0
    /\ run[0].pc \in {"fetch", "analyzing", "sleeping", "cleanup"} =>
          journal.cleanups = sweeps - 1
    /\ run[0].pc = "interval" =>
          /\ journal.cleanups = sweeps
          /\ [k \in DOMAIN attempts |-> attempts[k].subreddit] = AI_SUBREDDITS

\* a sweep whose sources all raised has done its cleanup and sleeps, and a
\* manual trigger has run to its end
C21_CleanedAfterFailures ==
    /\ run[0].pc = "interval"
    /\ journal.cleanups = 1
    /\ \A k \in DOMAIN attempts : attempts[k].raised
    /\ \E t \in Procs : run[t].pc = "returned"

\* C22 -- analyzed_at tracks classification: in every store state a post whose
\* sentiment is unset has analyzed_at unset
C22_AnalyzedAtTracks ==
    \A r \in posts : r.sentiment = None => r.analyzed_at = <<>>

\* C23 -- not-found payload: when the streaming analysis finds zero matches,
\* its single complete event carries zero-valued statistics and the empty
\* string as summary
C23_NotFoundPayload ==
    (stream.pc = "completed" /\ stream.rowids = {}) =>
        /\ Len(events) = 2
        /\ events[2].event = "complete"
        /\ events[2].stats.total = 0
        /\ events[2].stats.positive = 0
        /\ events[2].stats.neutral = 0
        /\ events[2].stats.negative = 0
        /\ events[2].summary = TextSummary(<<>>)

\* C24 -- failed summarization never aborts the stream: once the summarizer
\* call of a streaming analysis with matches has an outcome, the generator is
\* reading the response or has completed; after an exception (before or while
\* streaming) or a status other than 200 it has completed; and a completed
\* stream ends with its one complete event, which carries the statistics of
\* the sentiment event and the example lists
C24_NeverAborts ==
    stream.outcome # "" =>
        /\ stream.pc \in {"reading", "completed"}
        /\ stream.outcome \in {"exception", "status"} => stream.pc = "completed"
        /\ stream.pc = "completed" =>
              LET e == events[Len(events)]
              IN  /\ e.event = "complete"
                  /\ e.stats = stream.stats
                  /\ e.examples = stream.examples
                  /\ \E k \in DOMAIN events :
                        events[k].event = "sentiment" /\ events[k].stats = e.stats
                  /\ \A k \in DOMAIN events :
                        events[k].event = "complete" => k = Len(events)

\* the summarizer failed after a chunk was forwarded, and the stream completed
C24_FailedMidStream ==
    /\ stream.pc = "completed"
    /\ stream.outcome = "exception"
    /\ \E k \in DOMAIN events : events[k].event = "summary_chunk"

\* C25 -- cumulative chunks: the k-th summary_chunk event of a stream carries
\* the k-th content chunk the summarizer sent and, as accumulated text, the
\* chunks 1..k in the order received; and there is one event per chunk read,
\* emitted before the next chunk is read
C25_Cumulative ==
    LET IsChunk(e) == e.event = "summary_chunk"
        sent == SelectSeq(events, IsChunk)
    IN  /\ \A k \in DOMAIN sent :
              /\ sent[k].chunk = Chunks[k]
              /\ sent[k].accumulated = SubSeq(Chunks, 1, k)
        /\ stream.pc = "reading" => Len(sent) = Len(stream.accumulated.text)

\* a second chunk has been forwarded
C25_TwoChunks ==
    \E k \in DOMAIN events :
        events[k].event = "summary_chunk" /\ Len(events[k].accumulated) = 2

\* C26 -- example ranking: each of the three example lists of a topical
\* analysis holds at most 3 citations, all of posts of the list's category,
\* and they are the posts of that category with the highest score +
\* num_comments among the filtered posts, in descending order of it
C26_ExampleRanking ==
    \A q \in Tokens, subreddits \in StreamFilters :
        LET rows == FilterSubs(RowsIn(FtsMatch(q)), subreddits)
            a == StreamAnalysis(RowsIn(FtsMatch(q)), subreddits, 30)
            Engagement(r) == r.score + r.num_comments
        IN  \A category \in {"positive", "negative", "neutral"} :
                LET ex == a.examples[category]
                    members == {r \in rows : r.sentiment = category}
                    Cited(k) == {r \in rows : make_citation(r) = ex[k]}
                IN  /\ Len(ex) <= 3
                    /\ Len(ex) = 3 \/ Len(ex) = Cardinality(members)
                    /\ \A k \in DOMAIN ex :
                          /\ Cited(k) # {}
                          /\ Cited(k) \subseteq members
                          /\ \A r \in Cited(k) :
                                /\ \A j \in DOMAIN ex :
                                      j > k => \A o \in Cited(j) :
                                                  Engagement(r) >= Engagement(o)
                                /\ \A o \in members :
                                      (\A j \in DOMAIN ex : o \notin Cited(j)) =>
                                          Engagement(r) >= Engagement(o)

\* C27 -- streams do not write: no step of a streaming analysis, up to its
\* complete event with the summary or the fallback or up to the point where
\* the consumer abandons it, changes the posts table or the full-text index
C27_StreamsDoNotWrite ==
    [][(stream' # stream \/ events' # events) =>
          (posts' = posts /\ posts_fts' = posts_fts)]_vars

\* a stream has been abandoned after its sentiment event, over a store that
\* holds posts
C27_AbandonedOverPosts ==
    /\ stream.pc = "abandoned"
    /\ Len(events) >= 3
    /\ posts # {}
    /\ posts_fts # {}

\* C28 -- zero-total percentages: when the filtered post set of a topical
\* analysis is empty although the query has matches, positive_percent and
\* negative_percent are both 0, the streaming analysis has sent them in its
\* sentiment event and goes on, and search_analysis, asked the same at the
\* time of the sentiment event, returns its payload
C28_ZeroTotal ==
    /\ (stream.pc \in {"stats", "summarizing", "posting", "reading", "completed"}
          /\ stream.rowids # {} /\ stream.stats.total = 0) =>
            /\ stream.stats.positive_percent = 0
            /\ stream.stats.negative_percent = 0
            /\ events[3].event = "sentiment"
            /\ events[3].stats = stream.stats
    /\ stream.pc = "stats" =>
          \A a \in search_analysis(stream.q, stream.subreddits, stream.limit) :
              a.total = 0 => /\ ~a.raised
                             /\ a.positive_percent = 0
                             /\ a.negative_percent = 0

\* a stream whose query has matches, all removed by the source filter, has
\* sent its sentiment event, and search_analysis has the same empty set for
\* that request
C28_FilteredToNothing ==
    /\ stream.pc = "stats"
    /\ stream.rowids # {}
    /\ stream.stats.total = 0
    /\ \E a \in search_analysis(stream.q, stream.subreddits, stream.limit) :
          a.total = 0 /\ a.summary.kind = "nodiscussions"

\* C29 (as stated) -- final summary matches what was streamed: in a finished
\* stream with at least one summary_chunk event, the summary of the complete
\* event is the accumulated text of the last summary_chunk event, also when
\* the connection failed after chunks were forwarded
C29_SummaryIsStreamed ==
    LET IsChunk(e) == e.event = "summary_chunk"
        sent == SelectSeq(events, IsChunk)
    IN  (stream.pc = "completed" /\ sent # <<>>) =>
            events[Len(events)].summary = TextSummary(sent[Len(sent)].accumulated)

\* C29 (amended) -- in a finished stream with at least one summary_chunk
\* event, the summary of the complete event is the accumulated text of the
\* last summary_chunk event when the response was read to its end, and the
\* fallback text when the summarizer call raised after chunks were forwarded
C29_StreamedOrFallback ==
    LET IsChunk(e) == e.event = "summary_chunk"
        sent == SelectSeq(events, IsChunk)
    IN  (stream.pc = "completed" /\ sent # <<>>) =>
            events[Len(events)].summary =
                IF stream.outcome = "exception"
                THEN Fallback(stream.stats.total, stream.stats)
                ELSE TextSummary(sent[Len(sent)].accumulated)

\* a stream has completed after reading two chunks and the end of the response
C29_ReadToEnd ==
    /\ stream.pc = "completed"
    /\ stream.outcome = "ok"
    /\ events[Len(events)].summary = TextSummary(SubSeq(Chunks, 1, 2))

\* the sum of the entries of a series
RECURSIVE SeriesSum(_)
SeriesSum(series) ==
    IF series = <<>> THEN 0 ELSE series[1] + SeriesSum(Tail(series))

\* C30 -- timeline agrees with distribution: for the same source filter and
\* the same window, the entries of each series of get_timeline add up to the
\* count of that category in get_distribution
C30_TimelineAgrees ==
    \A subreddit \in TimelineSubs, days \in 1..MaxDays :
        LET t == get_timeline(subreddit, days)
            d == get_distribution(subreddit, days)
        IN  /\ SeriesSum(t.positive) = d.positive
            /\ SeriesSum(t.neutral) = d.neutral
            /\ SeriesSum(t.negative) = d.negative

\* C31 -- failed classification is permanent: a post that a run has stored
\* with sentiment unset, and that is too recent for retention to delete, stays
\* in the store with sentiment and sentiment_score unset, whatever the later
\* sweeps and manual triggers do
C31_UnsetForGood ==
    \A p \in Procs :
        \A id \in obs[p].unsetIds :
            SourcePost(id).created_utc >= now - Days(KEEP_MONTHS * 30) =>
                \E r \in posts : /\ r.id = id
                                 /\ r.sentiment = None
                                 /\ r.sentiment_score = <<>>

\* C32 -- retention is final: analyze_sentiment is called at most once for
\* every post id across the sweeps and cleanups of background_fetcher, and a
\* post that cleanup_old_posts has deleted is not classified or stored again
\* by a later sweep
C32_RetentionFinal ==
    \A id \in Ids :
        /\ calls[id] <= 1
        /\ id \in journal.removed =>
              /\ ~Exists(id)
              /\ ~(run[0].pc = "analyzing" /\ run[0].posts[run[0].i].id = id)

====
